---- MODULE Spec2Model ----
(***************************************************************************)
(* Model of the recommendation engine of the ShowBook recommender          *)
(* (src/ARCHITECTURE.md, lines 523-877): the four entry points             *)
(* recommendBooks, recommendShows, recommendBooksFromShows and             *)
(* recommendShowsFromBooks with the scorers and string helpers they use.   *)
(*                                                                         *)
(* A JavaScript string is a sequence of one-character strings, so that     *)
(* toLowerCase, trim, split and includes are computed character by         *)
(* character.  A score is held in tenths (Scale), because the fallback     *)
(* path of recommendBooksFromShows assigns the score 0.1.                  *)
(*                                                                         *)
(* Three more parts of the program have a specification of their own:      *)
(* calculateTitleSimilarity called with its arguments in both orders       *)
(* (TitleSpec), retryWithBackoff of src/utils/errors.ts (RetrySpec and     *)
(* RetryFairSpec) and the list operations of src/hooks/useUserData.ts      *)
(* (UserSpec).  Each specification leaves the variables of the others at   *)
(* their unused values.                                                    *)
(***************************************************************************)
EXTENDS Integers, Sequences, FiniteSets, TLC

VARIABLES
    history,    \* the first argument of the call: the user's items
    pool,       \* the second argument: the candidates
    limit,      \* the third argument
    op,         \* "idle", or the entry point that has been called
    scoredArray, \* the local array `scored` of the entry point called
    result,     \* the array the entry point returned
    error,      \* "none", or the error the entry point raised
    firstTitle, \* calculateTitleSimilarity: a title
    secondTitle, \* another title
    similarity, \* what calculateTitleSimilarity(firstTitle, secondTitle)
                \* returned
    swapped,    \* what calculateTitleSimilarity(secondTitle, firstTitle)
                \* returned
    maxRetries, \* retryWithBackoff: the second argument
    initialDelay, \* the third argument
    attempt,    \* the loop variable of retryWithBackoff
    retryPc,    \* where retryWithBackoff is
    fnLog,      \* how each call of fn settled, in call order
    lastError,  \* the local lastError of retryWithBackoff
    waited,     \* the delays of the timers that have fired
    settled,    \* how the promise of retryWithBackoff settled
    userData,   \* useUserData: the lists readBooks and watchedShows
    now,        \* what Date.now() returns
    lastCall    \* the last operation of useUserData called

engineVars == <<history, pool, limit, op, scoredArray, result, error>>
titleVars == <<firstTitle, secondTitle, similarity, swapped>>
retryVars ==
    <<maxRetries, initialDelay, attempt, retryPc, fnLog, lastError, waited,
      settled>>
userVars == <<userData, now, lastCall>>

vars == <<engineVars, titleVars, retryVars, userVars>>

-----------------------------------------------------------------------------
(* Bounds of the model *)

MaxHistory == 2
MaxPool == 3
MaxLimit == 2

-----------------------------------------------------------------------------
(* JavaScript strings and arrays *)

Chars(s) == [i \in 1..Len(s) |-> SubSeq(s, i, i)]

UpperChars == Chars("ABCDEFGHIJKLMNOPQRSTUVWXYZ")
LowerChars == Chars("abcdefghijklmnopqrstuvwxyz")

\* the lower-case letter of each upper-case letter
LowerOf == [c \in {UpperChars[i] : i \in 1..Len(UpperChars)} |->
               LowerChars[CHOOSE i \in 1..Len(UpperChars) : UpperChars[i] = c]]

IsSpace(c) == c = " "

LowerChar(c) == IF c \in DOMAIN LowerOf THEN LowerOf[c] ELSE c

\* String.prototype.toLowerCase
toLowerCase(s) == [i \in 1..Len(s) |-> LowerChar(s[i])]

\* String.prototype.trim
trim(s) ==
    LET keep == {i \in 1..Len(s) : ~IsSpace(s[i])}
    IN  IF keep = {} THEN <<>>
        ELSE LET lo == CHOOSE i \in keep : \A j \in keep : i <= j
                 hi == CHOOSE i \in keep : \A j \in keep : i >= j
             IN  SubSeq(s, lo, hi)

RECURSIVE SplitFrom(_, _, _, _)
SplitFrom(s, i, cur, acc) ==
    IF i > Len(s) THEN Append(acc, cur)
    ELSE IF IsSpace(s[i])
         THEN LET rest == {j \in i..Len(s) : ~IsSpace(s[j])}
                  nxt == IF rest = {} THEN Len(s) + 1
                         ELSE CHOOSE j \in rest : \A k \in rest : j <= k
              IN  SplitFrom(s, nxt, <<>>, Append(acc, cur))
         ELSE SplitFrom(s, i + 1, Append(cur, s[i]), acc)

\* String.prototype.split(/\s+/)
split(s) == SplitFrom(s, 1, <<>>, <<>>)

\* Array.prototype.includes
includes(arr, x) == \E i \in 1..Len(arr) : arr[i] = x

\* String.prototype.includes (substring)
strIncludes(s, sub) ==
    \E i \in 1..(Len(s) - Len(sub) + 1) : SubSeq(s, i, i + Len(sub) - 1) = sub

\* Array.prototype.map is written [ix \in 1..Len(arr) |-> f(arr[ix])] and
\* Array.prototype.filter is SelectSeq

\* arr.map(s => s.toLowerCase())
lowerAll(arr) == [ix \in 1..Len(arr) |-> toLowerCase(arr[ix])]

\* the strings of a list of literals
charsAll(lits) == [ix \in 1..Len(lits) |-> Chars(lits[ix])]

\* Array.prototype.slice(0, n): a negative n counts from the end
slice0(arr, n) ==
    LET stop == IF n < 0 THEN Len(arr) + n ELSE n
        last == IF stop > Len(arr) THEN Len(arr) ELSE stop
    IN  SubSeq(arr, 1, last)

RECURSIVE join(_, _)
\* Array.prototype.join
join(arr, sep) ==
    IF arr = <<>> THEN <<>>
    ELSE IF Len(arr) = 1 THEN arr[1]
         ELSE arr[1] \o sep \o join(Tail(arr), sep)

RECURSIVE flatten(_)
flatten(arrs) == IF arrs = <<>> THEN <<>> ELSE Head(arrs) \o flatten(Tail(arrs))

RECURSIVE unique(_)
\* Array.from(new Set(arr)): first occurrences, in order
unique(arr) ==
    IF arr = <<>> THEN <<>>
    ELSE LET init == unique(SubSeq(arr, 1, Len(arr) - 1))
             x == arr[Len(arr)]
         IN  IF includes(init, x) THEN init ELSE Append(init, x)

RECURSIVE sum(_)
sum(ns) == IF ns = <<>> THEN 0 ELSE Head(ns) + sum(Tail(ns))

-----------------------------------------------------------------------------
(* Scoring weights *)

EXACT_GENRE_MATCH == 10
PARTIAL_GENRE_MATCH == 5
TAG_MATCH == 3
POPULARITY_BONUS == 2

\* scores are held in tenths: 0.1 is NominalScore
Scale == 10
NominalScore == 1

-----------------------------------------------------------------------------
(* The engine.  An item (Book | TVShow) is a record                        *)
(* [id, title, genres, tags]; id is an opaque string, title, genres and    *)
(* tags are (lists of) character sequences.                                *)

\* the string literals of the engine
SharesGenres == Chars("Shares genres: ")
SimilarThemes == Chars("Similar themes: ")
RelatedSeries == Chars("Related series or adaptation")
RelatedShow == Chars("Related to a show you watched")
SimilarGenres == Chars("Similar genres: ")
FromShows == Chars("From your TV shows: ")
FromBooks == Chars("From your books: ")
CommaSpace == Chars(", ")
Fiction == Chars("Fiction")
GenericReading == Chars("Based on your reading history")
GenericViewing == Chars("Based on your viewing history")
GenericShows == Chars("Based on shows you've watched")
GenericBooks == Chars("Based on books you've read")

\* calculateOverlap that filters the second list by membership in the first
calculateOverlap_candidateSide(set1, set2) ==
    LET normalized1 == lowerAll(set1)
        normalized2 == lowerAll(set2)
        inFirst(x) == includes(normalized1, x)
        intersection == SelectSeq(normalized2, inFirst)
    IN  Len(intersection)

\* set1.map(s => s.toLowerCase()) filtered by membership in the lowered set2
calculateOverlap(set1, set2) ==
    LET normalized1 == lowerAll(set1)
        normalized2 == lowerAll(set2)
        inSecond(x) == includes(normalized2, x)
        intersection == SelectSeq(normalized1, inSecond)
    IN  Len(intersection)

\* the ratio commonWords.length / Math.max(words1.length, words2.length),
\* kept as numerator and denominator
calculateTitleSimilarity(title1, title2) ==
    LET words1 == split(toLowerCase(title1))
        words2 == split(toLowerCase(title2))
        common(w) == includes(words2, w) /\ Len(w) > 3
        commonWords == SelectSeq(words1, common)
        larger ==
            IF Len(words1) >= Len(words2) THEN Len(words1) ELSE Len(words2)
    IN  [num |-> Len(commonWords), den |-> larger]

\* titleSimilarity > 0.5
exceedsHalf(r) == 2 * r.num > r.den

\* generateReasons that lists the shared genres and tags lower-cased
generateReasons_lowered(userItem, candidateItem) ==
    LET genreOverlap == calculateOverlap(userItem.genres, candidateItem.genres)
        inCandGenres(g) == includes(lowerAll(candidateItem.genres), g)
        sharedGenres ==
            slice0(SelectSeq(lowerAll(userItem.genres), inCandGenres), 3)
        genreReason ==
            IF genreOverlap > 0
            THEN <<SharesGenres \o join(sharedGenres, CommaSpace)>>
            ELSE <<>>
        tagOverlap == calculateOverlap(userItem.tags, candidateItem.tags)
        inCandTags(t) == includes(lowerAll(candidateItem.tags), t)
        sharedTags == slice0(SelectSeq(lowerAll(userItem.tags), inCandTags), 2)
        tagReason ==
            IF tagOverlap > 0 /\ Len(sharedTags) > 0
            THEN <<SimilarThemes \o join(sharedTags, CommaSpace)>>
            ELSE <<>>
        titleSimilarity ==
            calculateTitleSimilarity(userItem.title, candidateItem.title)
        titleReason ==
            IF exceedsHalf(titleSimilarity)
            THEN <<RelatedSeries>>
            ELSE <<>>
    IN  genreReason \o tagReason \o titleReason

\* generateReasons that gives the title reason first
generateReasons_titleFirst(userItem, candidateItem) ==
    LET genreOverlap == calculateOverlap(userItem.genres, candidateItem.genres)
        inCandGenres(g) ==
            includes(lowerAll(candidateItem.genres), toLowerCase(g))
        sharedGenres == slice0(SelectSeq(userItem.genres, inCandGenres), 3)
        genreReason ==
            IF genreOverlap > 0
            THEN <<SharesGenres \o join(sharedGenres, CommaSpace)>>
            ELSE <<>>
        tagOverlap == calculateOverlap(userItem.tags, candidateItem.tags)
        inCandTags(t) ==
            includes(lowerAll(candidateItem.tags), toLowerCase(t))
        sharedTags == slice0(SelectSeq(userItem.tags, inCandTags), 2)
        tagReason ==
            IF tagOverlap > 0 /\ Len(sharedTags) > 0
            THEN <<SimilarThemes \o join(sharedTags, CommaSpace)>>
            ELSE <<>>
        titleSimilarity ==
            calculateTitleSimilarity(userItem.title, candidateItem.title)
        titleReason ==
            IF exceedsHalf(titleSimilarity)
            THEN <<RelatedSeries>>
            ELSE <<>>
    IN  titleReason \o genreReason \o tagReason

generateReasons(userItem, candidateItem) ==
    LET genreOverlap == calculateOverlap(userItem.genres, candidateItem.genres)
        inCandGenres(g) ==
            includes(lowerAll(candidateItem.genres), toLowerCase(g))
        sharedGenres == slice0(SelectSeq(userItem.genres, inCandGenres), 3)
        genreReason ==
            IF genreOverlap > 0
            THEN <<SharesGenres \o join(sharedGenres, CommaSpace)>>
            ELSE <<>>
        tagOverlap == calculateOverlap(userItem.tags, candidateItem.tags)
        inCandTags(t) ==
            includes(lowerAll(candidateItem.tags), toLowerCase(t))
        sharedTags == slice0(SelectSeq(userItem.tags, inCandTags), 2)
        tagReason ==
            IF tagOverlap > 0 /\ Len(sharedTags) > 0
            THEN <<SimilarThemes \o join(sharedTags, CommaSpace)>>
            ELSE <<>>
        titleSimilarity ==
            calculateTitleSimilarity(userItem.title, candidateItem.title)
        titleReason ==
            IF exceedsHalf(titleSimilarity)
            THEN <<RelatedSeries>>
            ELSE <<>>
    IN  genreReason \o tagReason \o titleReason

\* scoreItem without the early return for excluded ids
scoreItem_noExclusion(userItems, candidate, excludeIds) ==
    LET genreOverlap(u) == calculateOverlap(u.genres, candidate.genres)
        tagOverlap(u) == calculateOverlap(u.tags, candidate.tags)
        itemScore(u) ==
            genreOverlap(u) * EXACT_GENRE_MATCH + tagOverlap(u) * TAG_MATCH
        itemReasons(u) ==
            IF genreOverlap(u) > 0 \/ tagOverlap(u) > 0
            THEN generateReasons(u, candidate)
            ELSE <<>>
        scores == [ix \in 1..Len(userItems) |-> itemScore(userItems[ix])]
        reasons == [ix \in 1..Len(userItems) |-> itemReasons(userItems[ix])]
    IN  [score |-> sum(scores),
         reasons |-> slice0(unique(flatten(reasons)), 3)]

\* scoreItem without .slice(0, 3) on the reasons
scoreItem_noTruncate(userItems, candidate, excludeIds) ==
    IF candidate.id \in excludeIds THEN [score |-> 0, reasons |-> <<>>]
    ELSE
    LET genreOverlap(u) == calculateOverlap(u.genres, candidate.genres)
        tagOverlap(u) == calculateOverlap(u.tags, candidate.tags)
        itemScore(u) ==
            genreOverlap(u) * EXACT_GENRE_MATCH + tagOverlap(u) * TAG_MATCH
        itemReasons(u) ==
            IF genreOverlap(u) > 0 \/ tagOverlap(u) > 0
            THEN generateReasons(u, candidate)
            ELSE <<>>
        scores == [ix \in 1..Len(userItems) |-> itemScore(userItems[ix])]
        reasons == [ix \in 1..Len(userItems) |-> itemReasons(userItems[ix])]
    IN  [score |-> sum(scores), reasons |-> unique(flatten(reasons))]

\* scoreItem that cuts the reasons to 3 without removing the duplicates
scoreItem_noDedupe(userItems, candidate, excludeIds) ==
    IF candidate.id \in excludeIds THEN [score |-> 0, reasons |-> <<>>]
    ELSE
    LET genreOverlap(u) == calculateOverlap(u.genres, candidate.genres)
        tagOverlap(u) == calculateOverlap(u.tags, candidate.tags)
        itemScore(u) ==
            genreOverlap(u) * EXACT_GENRE_MATCH + tagOverlap(u) * TAG_MATCH
        itemReasons(u) ==
            IF genreOverlap(u) > 0 \/ tagOverlap(u) > 0
            THEN generateReasons(u, candidate)
            ELSE <<>>
        scores == [ix \in 1..Len(userItems) |-> itemScore(userItems[ix])]
        reasons == [ix \in 1..Len(userItems) |-> itemReasons(userItems[ix])]
    IN  [score |-> sum(scores), reasons |-> slice0(flatten(reasons), 3)]

\* scoreItem with the bonus of scoreBookFromShows for a similar title
scoreItem_titleBonus(userItems, candidate, excludeIds) ==
    IF candidate.id \in excludeIds THEN [score |-> 0, reasons |-> <<>>]
    ELSE
    LET genreOverlap(u) == calculateOverlap(u.genres, candidate.genres)
        tagOverlap(u) == calculateOverlap(u.tags, candidate.tags)
        similar(u) ==
            exceedsHalf(calculateTitleSimilarity(u.title, candidate.title))
        itemScore(u) ==
            genreOverlap(u) * EXACT_GENRE_MATCH + tagOverlap(u) * TAG_MATCH
            + (IF similar(u) THEN POPULARITY_BONUS * 2 ELSE 0)
        scores == [ix \in 1..Len(userItems) |-> itemScore(userItems[ix])]
    IN  [score |-> sum(scores), reasons |-> <<>>]

scoreItem(userItems, candidate, excludeIds) ==
    IF candidate.id \in excludeIds THEN [score |-> 0, reasons |-> <<>>]
    ELSE
    LET genreOverlap(u) == calculateOverlap(u.genres, candidate.genres)
        tagOverlap(u) == calculateOverlap(u.tags, candidate.tags)
        itemScore(u) ==
            genreOverlap(u) * EXACT_GENRE_MATCH + tagOverlap(u) * TAG_MATCH
        itemReasons(u) ==
            IF genreOverlap(u) > 0 \/ tagOverlap(u) > 0
            THEN generateReasons(u, candidate)
            ELSE <<>>
        totalScore ==
            sum([ix \in 1..Len(userItems) |-> itemScore(userItems[ix])])
        allReasons ==
            flatten([ix \in 1..Len(userItems) |-> itemReasons(userItems[ix])])
        uniqueReasons == slice0(unique(allReasons), 3)
    IN  [score |-> totalScore, reasons |-> uniqueReasons]

\* the static table of mapTVGenreToBookGenres, in source order
genreMap == <<
    <<"Drama", <<"Fiction", "Drama">>>>,
    <<"Comedy", <<"Fiction", "Humor">>>>,
    <<"Action", <<"Fiction", "Thriller", "Adventure">>>>,
    <<"Action & Adventure", <<"Fiction", "Thriller", "Adventure">>>>,
    <<"Adventure", <<"Fiction", "Adventure">>>>,
    <<"Crime", <<"Mystery", "Thriller", "Crime">>>>,
    <<"Mystery", <<"Mystery", "Thriller">>>>,
    <<"Thriller", <<"Thriller", "Mystery">>>>,
    <<"Sci-Fi & Fantasy", <<"Science Fiction", "Fantasy">>>>,
    <<"Sci-Fi", <<"Science Fiction">>>>,
    <<"Science Fiction", <<"Science Fiction">>>>,
    <<"Fantasy", <<"Fantasy", "Fiction">>>>,
    <<"Horror", <<"Horror", "Thriller">>>>,
    <<"Romance", <<"Romance", "Fiction">>>>,
    <<"Documentary", <<"Non-Fiction", "History", "Biography">>>>,
    <<"History", <<"History", "Non-Fiction">>>>,
    <<"War & Politics", <<"History", "Non-Fiction", "Politics">>>>,
    <<"Western", <<"Westerns", "Fiction">>>>,
    <<"Animation", <<"Fiction", "Children">>>>,
    <<"Family", <<"Fiction", "Children">>>>,
    <<"Kids", <<"Fiction", "Children">>>> >>

genreMapKeys == [i \in 1..Len(genreMap) |-> Chars(genreMap[i][1])]
genreMapValues == [i \in 1..Len(genreMap) |-> charsAll(genreMap[i][2])]

\* the property names every object literal inherits from
\* Object.prototype: genreMap[name] is a function (for "__proto__" the
\* prototype object), which is truthy and is not an array
ObjectPrototypeKeys == {
    Chars("constructor"), Chars("__proto__"), Chars("hasOwnProperty"),
    Chars("isPrototypeOf"), Chars("propertyIsEnumerable"),
    Chars("toLocaleString"), Chars("toString"), Chars("valueOf"),
    Chars("__defineGetter__"), Chars("__defineSetter__"),
    Chars("__lookupGetter__"), Chars("__lookupSetter__") }

\* a value a property lookup yields: an array with its elements, or an
\* inherited member, which has none
ArrayValue(elems) == [kind |-> "array", elems |-> elems]
InheritedMember == [kind |-> "inherited", elems |-> <<>>]

\* genreMap[tvGenre] || ['Fiction']: the lookup is by the label as given
\* and finds own keys first, then inherited ones
mapTVGenreToBookGenres(tvGenre) ==
    IF \E i \in 1..Len(genreMapKeys) : genreMapKeys[i] = tvGenre
    THEN ArrayValue(genreMapValues[CHOOSE i \in 1..Len(genreMapKeys) :
                                       genreMapKeys[i] = tvGenre])
    ELSE IF tvGenre \in ObjectPrototypeKeys
         THEN InheritedMember
         ELSE ArrayValue(<<Fiction>>)

\* mappedGenreWeight without the else: a partial match is looked for, and
\* weighed, after an exact match too
mappedGenreWeight_both(mappedGenre, candidateBook) ==
    LET normalizedMapped == trim(toLowerCase(mappedGenre))
        bookGenresNormalized ==
            [ix \in 1..Len(candidateBook.genres) |->
                trim(toLowerCase(candidateBook.genres[ix]))]
        mappedWords == split(normalizedMapped)
        hasPartialMatch ==
            \E b \in 1..Len(bookGenresNormalized) :
                \E w \in 1..Len(mappedWords) :
                    /\ Len(mappedWords[w]) > 3
                    /\ strIncludes(bookGenresNormalized[b], mappedWords[w])
    IN  (IF includes(bookGenresNormalized, normalizedMapped)
         THEN EXACT_GENRE_MATCH ELSE 0)
        + (IF hasPartialMatch THEN PARTIAL_GENRE_MATCH ELSE 0)

\* mappedGenreWeight that looks at the first genre of the candidate only
mappedGenreWeight_firstGenre(mappedGenre, candidateBook) ==
    LET normalizedMapped == trim(toLowerCase(mappedGenre))
        bookGenresNormalized ==
            IF Len(candidateBook.genres) = 0 THEN <<>>
            ELSE <<trim(toLowerCase(candidateBook.genres[1]))>>
        mappedWords == split(normalizedMapped)
        hasPartialMatch ==
            \E b \in 1..Len(bookGenresNormalized) :
                \E w \in 1..Len(mappedWords) :
                    /\ Len(mappedWords[w]) > 3
                    /\ strIncludes(bookGenresNormalized[b], mappedWords[w])
    IN  IF includes(bookGenresNormalized, normalizedMapped)
        THEN EXACT_GENRE_MATCH
        ELSE IF hasPartialMatch THEN PARTIAL_GENRE_MATCH
        ELSE 0

\* one pass of the innermost loop of scoreBookFromShows: the weight that
\* one mapped genre adds for the candidate (0 when it matches nothing)
mappedGenreWeight(mappedGenre, candidateBook) ==
    LET normalizedMapped == trim(toLowerCase(mappedGenre))
        normalize(g) == trim(toLowerCase(g))
        bookGenresNormalized ==
            [ix \in 1..Len(candidateBook.genres) |->
                normalize(candidateBook.genres[ix])]
        mappedWords == split(normalizedMapped)
        hasPartialMatch ==
            \E b \in 1..Len(bookGenresNormalized) :
                \E w \in 1..Len(mappedWords) :
                    /\ Len(mappedWords[w]) > 3
                    /\ strIncludes(bookGenresNormalized[b], mappedWords[w])
    IN  IF includes(bookGenresNormalized, normalizedMapped)
        THEN EXACT_GENRE_MATCH
        ELSE IF hasPartialMatch THEN PARTIAL_GENRE_MATCH
        ELSE 0

\* the mapped genres the loops visit for one show, in visiting order
mappedGenresOf(userShow) ==
    flatten([ix \in 1..Len(userShow.genres) |->
                mapTVGenreToBookGenres(userShow.genres[ix]).elems])

\* for (const mappedGenre of mappedBookGenres) raises a TypeError when
\* mappedBookGenres is not iterable: scoreBookFromShows raises for a
\* candidate that is not excluded as soon as a genre of a show maps to a
\* value that is not an array
scoreBookFromShowsThrows(userShows, candidateBook, excludeIds) ==
    /\ candidateBook.id \notin excludeIds
    /\ \E u \in 1..Len(userShows) :
        \E g \in 1..Len(userShows[u].genres) :
            mapTVGenreToBookGenres(userShows[u].genres[g]).kind # "array"

\* scoreBookFromShows with the bonus POPULARITY_BONUS, not doubled
scoreBookFromShows_singleBonus(userShows, candidateBook, excludeIds) ==
    IF candidateBook.id \in excludeIds THEN [score |-> 0, reasons |-> <<>>]
    ELSE
    LET weight(m) == mappedGenreWeight(m, candidateBook)
        matches(m) == weight(m) > 0
        weights(mapped) == [ix \in 1..Len(mapped) |-> weight(mapped[ix])]
        genreScore(u) == sum(weights(mappedGenresOf(u)))
        tagOverlap(u) == calculateOverlap(u.tags, candidateBook.tags)
        related(u) ==
            exceedsHalf(calculateTitleSimilarity(u.title, candidateBook.title))
        showScore(u) ==
            genreScore(u) + tagOverlap(u) * TAG_MATCH
            + (IF related(u) THEN POPULARITY_BONUS ELSE 0)
        titleReason(u) ==
            IF related(u) THEN <<RelatedShow>> ELSE <<>>
        totalScore ==
            sum([ix \in 1..Len(userShows) |-> showScore(userShows[ix])])
        visited ==
            flatten([ix \in 1..Len(userShows) |->
                        mappedGenresOf(userShows[ix])])
        matchedGenres == unique(SelectSeq(visited, matches))
        genreReason ==
            IF Len(matchedGenres) > 0
            THEN <<SimilarGenres \o join(slice0(matchedGenres, 3), CommaSpace)>>
            ELSE <<>>
        allReasons ==
            flatten([ix \in 1..Len(userShows) |-> titleReason(userShows[ix])])
            \o genreReason
        uniqueReasons == slice0(unique(allReasons), 3)
    IN  [score |-> totalScore, reasons |-> uniqueReasons]

scoreBookFromShows(userShows, candidateBook, excludeIds) ==
    IF candidateBook.id \in excludeIds THEN [score |-> 0, reasons |-> <<>>]
    ELSE
    LET weight(m) == mappedGenreWeight(m, candidateBook)
        matches(m) == weight(m) > 0
        weights(mapped) == [ix \in 1..Len(mapped) |-> weight(mapped[ix])]
        genreScore(u) == sum(weights(mappedGenresOf(u)))
        tagOverlap(u) == calculateOverlap(u.tags, candidateBook.tags)
        related(u) ==
            exceedsHalf(calculateTitleSimilarity(u.title, candidateBook.title))
        showScore(u) ==
            genreScore(u) + tagOverlap(u) * TAG_MATCH
            + (IF related(u) THEN POPULARITY_BONUS * 2 ELSE 0)
        titleReason(u) ==
            IF related(u) THEN <<RelatedShow>> ELSE <<>>
        totalScore ==
            sum([ix \in 1..Len(userShows) |-> showScore(userShows[ix])])
        visited ==
            flatten([ix \in 1..Len(userShows) |->
                        mappedGenresOf(userShows[ix])])
        matchedGenres == unique(SelectSeq(visited, matches))
        genreReason ==
            IF Len(matchedGenres) > 0
            THEN <<SimilarGenres \o join(slice0(matchedGenres, 3), CommaSpace)>>
            ELSE <<>>
        allReasons ==
            flatten([ix \in 1..Len(userShows) |-> titleReason(userShows[ix])])
            \o genreReason
        uniqueReasons == slice0(unique(allReasons), 3)
    IN  [score |-> totalScore, reasons |-> uniqueReasons]

-----------------------------------------------------------------------------
(* Ranking.  A Recommendation is [item, pos, score, reasons]: item is the  *)
(* candidate object, pos the index of that object in the candidate array   *)
(* (the identity of the reference held in item), score is in tenths.       *)
(* An entry point yields [scored, result]: result is the array it returns, *)
(* scored its local array of the same name (empty when the entry point     *)
(* returns before computing it).                                           *)

\* the filter with >= for >
positive_orZero(r) == r.score >= 0

positive(r) == r.score > 0

RECURSIVE insertByScore_afterTies(_, _)
\* an insertion that puts x after the entries of equal score
insertByScore_afterTies(x, sorted) ==
    IF sorted = <<>> THEN <<x>>
    ELSE IF Head(sorted).score >= x.score
         THEN <<Head(sorted)>> \o insertByScore_afterTies(x, Tail(sorted))
         ELSE <<x>> \o sorted

RECURSIVE insertByScore(_, _)
insertByScore(x, sorted) ==
    IF sorted = <<>> THEN <<x>>
    ELSE IF Head(sorted).score > x.score
         THEN <<Head(sorted)>> \o insertByScore(x, Tail(sorted))
         ELSE <<x>> \o sorted

RECURSIVE sortByScore(_)
\* Array.prototype.sort((a, b) => b.score - a.score): stable, descending
sortByScore(arr) ==
    IF arr = <<>> THEN <<>>
    ELSE insertByScore(Head(arr), sortByScore(Tail(arr)))

\* recommendation that lower-cases the labels of the candidate it returns
recommendation_lowered(candidate, i, s, prefix, generic) ==
    [item |-> [candidate EXCEPT !.genres = lowerAll(candidate.genres),
                                !.tags = lowerAll(candidate.tags)],
     pos |-> i,
     score |-> s.score * Scale,
     reasons |->
        IF Len(s.reasons) > 0
        THEN [ix \in 1..Len(s.reasons) |-> prefix \o s.reasons[ix]]
        ELSE <<generic>>]

\* the object literal {item: candidate, score, reasons: ...} the entry
\* points build from a scoring s of the candidate at index i: prefix is the
\* attribution put before each reason, generic the default reason
recommendation(candidate, i, s, prefix, generic) ==
    [item |-> candidate,
     pos |-> i,
     score |-> s.score * Scale,
     reasons |->
        IF Len(s.reasons) > 0
        THEN [ix \in 1..Len(s.reasons) |-> prefix \o s.reasons[ix]]
        ELSE <<generic>>]

\* candidates.map(candidate => ...) with scoreItem
\* scoreAll that makes one entry for every pair of a user item and a
\* candidate
scoreAll_perUserItem(userItems, candidates, excludeIds, prefix, generic) ==
    flatten([u \in 1..Len(userItems) |->
        [i \in 1..Len(candidates) |->
            recommendation(candidates[i], i,
                           scoreItem(<<userItems[u]>>, candidates[i],
                                     excludeIds),
                           prefix, generic)]])

scoreAll(userItems, candidates, excludeIds, prefix, generic) ==
    [i \in 1..Len(candidates) |->
        recommendation(candidates[i], i,
                       scoreItem(userItems, candidates[i], excludeIds),
                       prefix, generic)]

\* candidateBooks.map(candidate => ...) with scoreBookFromShows
scoreAllFromShows(userShows, candidateBooks, excludeIds, prefix, generic) ==
    [i \in 1..Len(candidateBooks) |->
        recommendation(candidateBooks[i], i,
                       scoreBookFromShows(userShows, candidateBooks[i],
                                          excludeIds),
                       prefix, generic)]

\* what an entry point that returns yields
yield(scored, returned) ==
    [scored |-> scored, result |-> returned, error |-> "none"]

\* what an entry point yields when an error leaves it: no result
raise(e) == [scored |-> <<>>, result |-> <<>>, error |-> e]

\* candidateBooks.map(...) is left by the error the callback raises
mapThrows(userShows, candidateBooks, excludeIds) ==
    \E i \in 1..Len(candidateBooks) :
        scoreBookFromShowsThrows(userShows, candidateBooks[i], excludeIds)

idsOf(items) == {items[i].id : i \in 1..Len(items)}

\* rank without .slice(0, limit)
rank_noSlice(scored, lim) == sortByScore(SelectSeq(scored, positive))

\* scored.filter(r => r.score > 0).sort(...).slice(0, limit)
rank(scored, lim) == slice0(sortByScore(SelectSeq(scored, positive)), lim)

\* the entry points that return the ranking of their scored array
ranked(scored, lim) == yield(scored, rank(scored, lim))

recommendBooks(readBooks, candidateBooks, lim) ==
    LET userBooks == readBooks
        excludeIds == idsOf(userBooks)
    IN  ranked(scoreAll(userBooks, candidateBooks, excludeIds,
                        <<>>, GenericReading),
               lim)

recommendShows(watchedShows, candidateShows, lim) ==
    LET userShows == watchedShows
        excludeIds == idsOf(userShows)
    IN  ranked(scoreAll(userShows, candidateShows, excludeIds,
                        <<>>, GenericViewing),
               lim)

\* the fallback map without "|| 0.1"
withNominalScore_keepScore(r) ==
    [r EXCEPT !.reasons = IF Len(r.reasons) > 0 THEN r.reasons
                          ELSE <<GenericShows>>]

\* r => ({...r, score: r.score || 0.1, reasons: ...})
withNominalScore(r) ==
    [r EXCEPT !.score = IF r.score # 0 THEN r.score ELSE NominalScore,
              !.reasons = IF Len(r.reasons) > 0 THEN r.reasons
                          ELSE <<GenericShows>>]

\* scored.map(r => ({...r, score: r.score || 0.1, reasons: ...}))
allWithNominalScore(scored) ==
    [ix \in 1..Len(scored) |-> withNominalScore(scored[ix])]

\* rankedOrFallback that keeps the candidates of score zero, with the
\* nominal score, behind the ones that scored
rankedOrFallback_mixed(scored, lim) ==
    yield(scored, slice0(sortByScore(allWithNominalScore(scored)), lim))

\* the rest of recommendBooksFromShows after scored is built: the
\* ranking, or every candidate when nothing scored above zero
rankedOrFallback(scored, lim) ==
    LET filtered == SelectSeq(scored, positive)
    IN  yield(scored,
              IF Len(filtered) = 0 /\ Len(scored) > 0
              THEN slice0(sortByScore(allWithNominalScore(scored)), lim)
              ELSE slice0(sortByScore(filtered), lim))

\* rankedOrFallback that falls back whenever the filtered list is shorter
\* than the limit
rankedOrFill(scored, lim) ==
    LET filtered == SelectSeq(scored, positive)
    IN  yield(scored,
              IF Len(filtered) < lim /\ Len(scored) > 0
              THEN slice0(sortByScore(allWithNominalScore(scored)), lim)
              ELSE slice0(sortByScore(filtered), lim))

\* recommendBooksFromShows without the fallback branch
recommendBooksFromShows_noFallback(watchedShows, candidateBooks, lim) ==
    IF Len(watchedShows) = 0 THEN yield(<<>>, <<>>)
    ELSE
    ranked(scoreAllFromShows(watchedShows, candidateBooks, {},
                             FromShows, GenericShows),
           lim)

\* recommendBooksFromShows without the early return on an empty history
recommendBooksFromShows_noGate(watchedShows, candidateBooks, lim) ==
    rankedOrFallback(scoreAllFromShows(watchedShows, candidateBooks, {},
                                       FromShows, GenericShows),
                     lim)

\* recommendBooksFromShows that falls back whenever the filtered list is
\* shorter than the limit
recommendBooksFromShows_fill(watchedShows, candidateBooks, lim) ==
    IF Len(watchedShows) = 0 THEN yield(<<>>, <<>>)
    ELSE
    rankedOrFill(scoreAllFromShows(watchedShows, candidateBooks, {},
                                   FromShows, GenericShows),
                 lim)

recommendBooksFromShows(watchedShows, candidateBooks, lim) ==
    IF Len(watchedShows) = 0 THEN yield(<<>>, <<>>)
    ELSE
    LET userShows == watchedShows
        excludeIds == {}
    IN  IF mapThrows(userShows, candidateBooks, excludeIds)
        THEN raise("TypeError")
        ELSE rankedOrFallback(scoreAllFromShows(userShows, candidateBooks,
                                                excludeIds, FromShows,
                                                GenericShows),
                              lim)

recommendShowsFromBooks(readBooks, candidateShows, lim) ==
    LET userBooks == readBooks
        excludeIds == {}
    IN  ranked(scoreAll(userBooks, candidateShows, excludeIds,
                        FromBooks, GenericBooks),
               lim)

-----------------------------------------------------------------------------
(* Inputs: the items callers pass.  The history items and the candidates   *)
(* are drawn from two small catalogues.                                    *)

Item(id, title, genres, tags) ==
    [id |-> id, title |-> Chars(title),
     genres |-> charsAll(genres), tags |-> charsAll(tags)]

HistoryItems == {
    Item("1", "Dune", <<>>, <<>>),
    Item("2", "Breaking Bad", <<"Crime", "Drama">>, <<"dark">>),
    Item("3", "Gone Girl", <<"Comedy">>, <<"Dark">>) }

PoolItems == {
    Item("3", "Dune", <<"Drama">>, <<>>),
    Item("4", "Gone Girl", <<"crime", "Crime Fiction">>, <<"Dark">>),
    Item("5", "Funny", <<"Comedy", " drama ">>, <<>>),
    Item("6", "Hamlet", <<"drama">>, <<>>) }

SeqsUpTo(S, n) == UNION {[1..k -> S] : k \in 0..n}

\* a candidate array holds each catalogue item at most once
Pools ==
    {p \in SeqsUpTo(PoolItems, MaxPool) :
        \A i, j \in 1..Len(p) : i # j => p[i] # p[j]}

\* a limit integer: a negative one, and the limits up to MaxLimit
Limits == {-1} \cup 0..MaxLimit

\* A second pair of catalogues, for the treatment of labels: repeated
\* entries, entries that differ in case or surrounding whitespace, labels
\* that are keys of the genre table, and a label that names an inherited
\* property.
LabelHistoryItems == {
    Item("1", "Gone Girl", <<"Comedy", "Comedy">>, <<"dark">>),
    Item("2", "Dune", <<"drama", " Crime ">>, <<" Dark ">>),
    Item("3", "Hamlet", <<"constructor">>, <<>>),
    Item("4", "Emma", <<"Humor", "humor", "HUMOR", "Humor">>,
         <<"dark", "Dark", "DARK">>) }

LabelPoolItems == {
    Item("5", "Dune", <<>>, <<>>),
    Item("6", "Funny", <<"Comedy">>, <<"dark">>),
    Item("7", "Gone Girl", <<"comedy", "Comedy", "Humor">>,
         <<"dark", "Dark">>),
    Item("1", "Gone Girl", <<"Comedy", "Comedy", "Drama", "Crime">>,
         <<"dark">>),
    Item("8", "Emma", <<"Humor">>, <<>>) }

LabelPools ==
    {p \in SeqsUpTo(LabelPoolItems, MaxPool) :
        \A i, j \in 1..Len(p) : i # j => p[i] # p[j]}

-----------------------------------------------------------------------------
(* The calls *)

\* no result of calculateTitleSimilarity yet
NotCalled == [num |-> 0, den |-> 0]

\* no call of calculateTitleSimilarity is made
titleUnused ==
    /\ firstTitle = <<>>
    /\ secondTitle = <<>>
    /\ similarity = NotCalled
    /\ swapped = NotCalled

\* a promise that has not settled, and the value undefined
Pending == [kind |-> "pending", retryable |-> FALSE, call |-> 0]
Undefined == [kind |-> "undefined", retryable |-> FALSE, call |-> 0]

\* no call of retryWithBackoff is made
retryUnused ==
    /\ maxRetries = 0
    /\ initialDelay = 0
    /\ attempt = 0
    /\ retryPc = "unused"
    /\ fnLog = <<>>
    /\ lastError = Undefined
    /\ waited = <<>>
    /\ settled = Pending

\* no operation of useUserData has been called
NoCall == [name |-> "none", id |-> ""]

defaultUserData == [readBooks |-> <<>>, watchedShows |-> <<>>]

\* no operation of useUserData is called
userUnused ==
    /\ userData = defaultUserData
    /\ now = 0
    /\ lastCall = NoCall

\* the entry points are not called
engineUnused ==
    /\ history = <<>>
    /\ pool = <<>>
    /\ limit = 0
    /\ op = "unused"
    /\ scoredArray = <<>>
    /\ result = <<>>
    /\ error = "none"

Init ==
    /\ history \in SeqsUpTo(HistoryItems, MaxHistory)
    /\ pool \in Pools
    /\ limit \in Limits
    /\ op = "idle"
    /\ scoredArray = <<>>
    /\ result = <<>>
    /\ error = "none"
    /\ titleUnused /\ retryUnused /\ userUnused

RecommendBooks ==
    /\ op = "idle"
    /\ op' = "recommendBooks"
    /\ \E r \in {recommendBooks(history, pool, limit)} :
           scoredArray' = r.scored /\ result' = r.result /\ error' = r.error
    /\ UNCHANGED <<history, pool, limit, titleVars, retryVars, userVars>>

RecommendShows ==
    /\ op = "idle"
    /\ op' = "recommendShows"
    /\ \E r \in {recommendShows(history, pool, limit)} :
           scoredArray' = r.scored /\ result' = r.result /\ error' = r.error
    /\ UNCHANGED <<history, pool, limit, titleVars, retryVars, userVars>>

RecommendBooksFromShows ==
    /\ op = "idle"
    /\ op' = "recommendBooksFromShows"
    /\ \E r \in {recommendBooksFromShows(history, pool, limit)} :
           scoredArray' = r.scored /\ result' = r.result /\ error' = r.error
    /\ UNCHANGED <<history, pool, limit, titleVars, retryVars, userVars>>

RecommendShowsFromBooks ==
    /\ op = "idle"
    /\ op' = "recommendShowsFromBooks"
    /\ \E r \in {recommendShowsFromBooks(history, pool, limit)} :
           scoredArray' = r.scored /\ result' = r.result /\ error' = r.error
    /\ UNCHANGED <<history, pool, limit, titleVars, retryVars, userVars>>

Next ==
    \/ RecommendBooks
    \/ RecommendShows
    \/ RecommendBooksFromShows
    \/ RecommendShowsFromBooks

Spec == Init /\ [][Next]_vars

\* the calls on the label catalogues, with a limit that cuts nothing
LabelInit ==
    /\ history \in SeqsUpTo(LabelHistoryItems, MaxHistory)
    /\ pool \in LabelPools
    /\ limit = MaxPool
    /\ op = "idle"
    /\ scoredArray = <<>>
    /\ result = <<>>
    /\ error = "none"
    /\ titleUnused /\ retryUnused /\ userUnused

LabelSpec == LabelInit /\ [][Next]_vars

-----------------------------------------------------------------------------
(* calculateTitleSimilarity on its own *)

\* the longest title, in pieces separated by one space
MaxTitleWords == 2

WordStar == Chars("Star")
WordStarLower == Chars("star")
WordWars == Chars("Wars")
WordThe == Chars("The")
OneSpace == Chars(" ")

\* the pieces of a title; the empty piece makes a leading, a trailing or a
\* doubled space
TitleWords == {WordStar, WordStarLower, WordWars, WordThe, <<>>}

Titles == {join(ws, OneSpace) : ws \in SeqsUpTo(TitleWords, MaxTitleWords)}

TitleInit ==
    /\ firstTitle \in Titles
    /\ secondTitle \in Titles
    /\ similarity = NotCalled
    /\ swapped = NotCalled
    /\ engineUnused /\ retryUnused /\ userUnused

\* calculateTitleSimilarity(firstTitle, secondTitle)
CalculateTitleSimilarity ==
    /\ similarity = NotCalled
    /\ similarity' = calculateTitleSimilarity(firstTitle, secondTitle)
    /\ UNCHANGED <<firstTitle, secondTitle, swapped>>
    /\ UNCHANGED <<engineVars, retryVars, userVars>>

\* calculateTitleSimilarity(secondTitle, firstTitle)
CalculateTitleSimilaritySwapped ==
    /\ swapped = NotCalled
    /\ swapped' = calculateTitleSimilarity(secondTitle, firstTitle)
    /\ UNCHANGED <<firstTitle, secondTitle, similarity>>
    /\ UNCHANGED <<engineVars, retryVars, userVars>>

TitleNext ==
    \/ CalculateTitleSimilarity
    \/ CalculateTitleSimilaritySwapped

TitleSpec == TitleInit /\ [][TitleNext]_vars

-----------------------------------------------------------------------------
(* retryWithBackoff (src/utils/errors.ts) *)

\* the largest maxRetries
MaxRetries == 2

\* the values of initialDelay, in milliseconds
InitialDelays == {1, 1000}

\* what a call of fn can throw: a NetworkError, an APIError that is
\* retryable or not, another Error
Errors ==
    {[kind |-> "NetworkError", retryable |-> FALSE],
     [kind |-> "APIError", retryable |-> TRUE],
     [kind |-> "APIError", retryable |-> FALSE],
     [kind |-> "Error", retryable |-> FALSE]}

\* the value the n-th call of fn resolves to
resolved(n) == [kind |-> "value", retryable |-> FALSE, call |-> n]

\* error e, thrown by the n-th call of fn
rejected(e, n) == [kind |-> e.kind, retryable |-> e.retryable, call |-> n]

\* isRetryable that lets every error be retried
isRetryable_anyError(e) == TRUE

isRetryable(e) ==
    IF e.kind = "APIError" THEN e.retryable
    ELSE IF e.kind = "NetworkError" THEN TRUE
    ELSE FALSE

\* initialDelay * Math.pow(2, attempt)
backoffDelay(initial, n) == initial * 2^n

RetryInit ==
    /\ maxRetries \in 0..MaxRetries
    /\ initialDelay \in InitialDelays
    /\ attempt = 0
    /\ retryPc = "loop"
    /\ fnLog = <<>>
    /\ lastError = Undefined
    /\ waited = <<>>
    /\ settled = Pending
    /\ engineUnused /\ titleUnused /\ userUnused

\* the test of the for loop, and either the call fn() or the throw after
\* the loop
LoopTest ==
    /\ retryPc = "loop"
    /\ IF attempt <= maxRetries
       THEN retryPc' = "awaitFn" /\ UNCHANGED settled
       ELSE retryPc' = "thrown" /\ settled' = lastError
    /\ UNCHANGED <<maxRetries, initialDelay, attempt, fnLog, lastError,
                   waited>>
    /\ UNCHANGED <<engineVars, titleVars, userVars>>

\* the promise of fn() is fulfilled: return await fn()
FnResolves ==
    /\ retryPc = "awaitFn"
    /\ fnLog' = Append(fnLog, resolved(Len(fnLog) + 1))
    /\ settled' = resolved(Len(fnLog) + 1)
    /\ retryPc' = "returned"
    /\ UNCHANGED <<maxRetries, initialDelay, attempt, lastError, waited>>
    /\ UNCHANGED <<engineVars, titleVars, userVars>>

\* the promise of fn() is rejected: the catch block, up to the timer
FnRejects ==
    /\ retryPc = "awaitFn"
    /\ \E e \in Errors : \E err \in {rejected(e, Len(fnLog) + 1)} :
        /\ fnLog' = Append(fnLog, err)
        /\ lastError' = err
        /\ IF attempt = maxRetries \/ ~isRetryable(err)
           THEN retryPc' = "thrown" /\ settled' = err
           ELSE retryPc' = "awaitTimer" /\ UNCHANGED settled
    /\ UNCHANGED <<maxRetries, initialDelay, attempt, waited>>
    /\ UNCHANGED <<engineVars, titleVars, userVars>>

\* the timer of setTimeout(resolve, delay) fires, attempt++
TimerFires ==
    /\ retryPc = "awaitTimer"
    /\ waited' = Append(waited, backoffDelay(initialDelay, attempt))
    /\ attempt' = attempt + 1
    /\ retryPc' = "loop"
    /\ UNCHANGED <<maxRetries, initialDelay, fnLog, lastError, settled>>
    /\ UNCHANGED <<engineVars, titleVars, userVars>>

RetryNext ==
    \/ LoopTest
    \/ FnResolves
    \/ FnRejects
    \/ TimerFires

RetrySpec == RetryInit /\ [][RetryNext]_vars

\* the event loop runs the continuation and the timer, and the promise
\* of every call of fn settles
RetryFairSpec ==
    /\ RetrySpec
    /\ WF_vars(LoopTest)
    /\ WF_vars(FnResolves \/ FnRejects)
    /\ WF_vars(TimerFires)

-----------------------------------------------------------------------------
(* useUserData (src/hooks/useUserData.ts): the lists of the user *)

\* the largest value of Date.now()
MaxClock == 1

\* the books and the shows the operations are called with; two of the
\* books have the same id
Books ==
    {[id |-> "b1", title |-> "Dune"],
     [id |-> "b1", title |-> "Dune Messiah"],
     [id |-> "b2", title |-> "Emma"]}

TVShows == {[id |-> "s1", title |-> "Dune"]}

BookStatuses == {"want-to-read", "read"}
ShowStatuses == {"want-to-watch", "watched"}

\* an entry without the field rating, and the ratings that are set
Unrated == 0
Ratings == {5}

\* prev.readBooks.some(ub => ub.book.id === bookId)
hasBook(userBooks, bookId) ==
    \E i \in DOMAIN userBooks : userBooks[i].book.id = bookId

\* prev.watchedShows.some(us => us.show.id === showId)
hasShow(userShows, showId) ==
    \E i \in DOMAIN userShows : userShows[i].show.id = showId

\* addBook without the check that the book is in the list already
addBook_noCheck(prev, book, status, addedAt) ==
    [prev EXCEPT !.readBooks =
        Append(@, [book |-> book, addedAt |-> addedAt, status |-> status,
                   rating |-> Unrated])]

addBook(prev, book, status, addedAt) ==
    IF hasBook(prev.readBooks, book.id) THEN prev
    ELSE [prev EXCEPT !.readBooks =
             Append(@, [book |-> book, addedAt |-> addedAt,
                        status |-> status, rating |-> Unrated])]

removeBook(prev, bookId) ==
    LET kept(ub) == ub.book.id # bookId
    IN  [prev EXCEPT !.readBooks = SelectSeq(@, kept)]

addShow(prev, show, status, addedAt) ==
    IF hasShow(prev.watchedShows, show.id) THEN prev
    ELSE [prev EXCEPT !.watchedShows =
             Append(@, [show |-> show, addedAt |-> addedAt,
                        status |-> status, rating |-> Unrated])]

removeShow(prev, showId) ==
    LET kept(us) == us.show.id # showId
    IN  [prev EXCEPT !.watchedShows = SelectSeq(@, kept)]

setBookRating(prev, bookId, rating) ==
    [prev EXCEPT !.readBooks =
        [i \in DOMAIN @ |->
            IF @[i].book.id = bookId THEN [@[i] EXCEPT !.rating = rating]
            ELSE @[i]]]

setShowRating(prev, showId, rating) ==
    [prev EXCEPT !.watchedShows =
        [i \in DOMAIN @ |->
            IF @[i].show.id = showId THEN [@[i] EXCEPT !.rating = rating]
            ELSE @[i]]]

setBookStatus(prev, bookId, status) ==
    [prev EXCEPT !.readBooks =
        [i \in DOMAIN @ |->
            IF @[i].book.id = bookId THEN [@[i] EXCEPT !.status = status]
            ELSE @[i]]]

setShowStatus(prev, showId, status) ==
    [prev EXCEPT !.watchedShows =
        [i \in DOMAIN @ |->
            IF @[i].show.id = showId THEN [@[i] EXCEPT !.status = status]
            ELSE @[i]]]

\* the operation called, with the id it is called for
called(name, id) == [name |-> name, id |-> id]

UserInit ==
    /\ userData = defaultUserData
    /\ now = 0
    /\ lastCall = NoCall
    /\ engineUnused /\ titleUnused /\ retryUnused

\* time passes
Tick ==
    /\ now < MaxClock
    /\ now' = now + 1
    /\ UNCHANGED <<userData, lastCall>>
    /\ UNCHANGED <<engineVars, titleVars, retryVars>>

AddBook ==
    /\ \E book \in Books : \E status \in BookStatuses :
        /\ userData' = addBook(userData, book, status, now)
        /\ lastCall' = called("addBook", book.id)
    /\ UNCHANGED now
    /\ UNCHANGED <<engineVars, titleVars, retryVars>>

RemoveBook ==
    /\ \E book \in Books :
        /\ userData' = removeBook(userData, book.id)
        /\ lastCall' = called("removeBook", book.id)
    /\ UNCHANGED now
    /\ UNCHANGED <<engineVars, titleVars, retryVars>>

SetBookRating ==
    /\ \E book \in Books : \E rating \in Ratings :
        /\ userData' = setBookRating(userData, book.id, rating)
        /\ lastCall' = called("setBookRating", book.id)
    /\ UNCHANGED now
    /\ UNCHANGED <<engineVars, titleVars, retryVars>>

SetBookStatus ==
    /\ \E book \in Books : \E status \in BookStatuses :
        /\ userData' = setBookStatus(userData, book.id, status)
        /\ lastCall' = called("setBookStatus", book.id)
    /\ UNCHANGED now
    /\ UNCHANGED <<engineVars, titleVars, retryVars>>

AddShow ==
    /\ \E show \in TVShows : \E status \in ShowStatuses :
        /\ userData' = addShow(userData, show, status, now)
        /\ lastCall' = called("addShow", show.id)
    /\ UNCHANGED now
    /\ UNCHANGED <<engineVars, titleVars, retryVars>>

RemoveShow ==
    /\ \E show \in TVShows :
        /\ userData' = removeShow(userData, show.id)
        /\ lastCall' = called("removeShow", show.id)
    /\ UNCHANGED now
    /\ UNCHANGED <<engineVars, titleVars, retryVars>>

SetShowRating ==
    /\ \E show \in TVShows : \E rating \in Ratings :
        /\ userData' = setShowRating(userData, show.id, rating)
        /\ lastCall' = called("setShowRating", show.id)
    /\ UNCHANGED now
    /\ UNCHANGED <<engineVars, titleVars, retryVars>>

SetShowStatus ==
    /\ \E show \in TVShows : \E status \in ShowStatuses :
        /\ userData' = setShowStatus(userData, show.id, status)
        /\ lastCall' = called("setShowStatus", show.id)
    /\ UNCHANGED now
    /\ UNCHANGED <<engineVars, titleVars, retryVars>>

UserNext ==
    \/ Tick
    \/ AddBook
    \/ RemoveBook
    \/ SetBookRating
    \/ SetBookStatus
    \/ AddShow
    \/ RemoveShow
    \/ SetShowRating
    \/ SetShowStatus

UserSpec == UserInit /\ [][UserNext]_vars

-----------------------------------------------------------------------------
(* Vocabulary of the properties *)

SameDomainOps == {"recommendBooks", "recommendShows"}
CrossDomainOps == {"recommendBooksFromShows", "recommendShowsFromBooks"}

Min(a, b) == IF a <= b THEN a ELSE b

Positions == 1..Len(pool)

\* the score (in units) and the reasons that the scorer of entry point o
\* gives the candidate at position j, before any exclusion by id
scoreOf(o, j) ==
    IF o = "recommendBooksFromShows"
    THEN scoreBookFromShows(history, pool[j], {})
    ELSE scoreItem(history, pool[j], {})

\* the generic reason of entry point o
genericOf(o) ==
    CASE o = "recommendBooks" -> GenericReading
      [] o = "recommendShows" -> GenericViewing
      [] o = "recommendBooksFromShows" -> GenericShows
      [] OTHER -> GenericBooks

\* the entry the fallback of recommendBooksFromShows makes of position i
fallbackEntry(i) ==
    [item |-> pool[i], pos |-> i, score |-> NominalScore,
     reasons |-> <<GenericShows>>]

\* the fallback result of n entries
fallbackResult(n) == [i \in 1..n |-> fallbackEntry(i)]

\* every candidate of the call scored 0
allScoreZero == \A j \in 1..Len(scoredArray) : scoredArray[j].score = 0

\* position j is ranked before position k: higher score, or equal score
\* and earlier in the pool
before(sc, j, k) == sc[j] > sc[k] \/ (sc[j] = sc[k] /\ j < k)

\* the scores (in tenths) the call gave the positions of the pool
scores == [j \in 1..Len(scoredArray) |-> scoredArray[j].score]

\* res is a prefix of the list of the positions of E ordered by before
rankedPrefix(sc, res, E) ==
    /\ \A i \in 1..Len(res) :
        /\ res[i].pos \in E
        /\ res[i].item = pool[res[i].pos]
        /\ res[i].score = sc[res[i].pos]
    /\ \A i, k \in 1..Len(res) : i < k => before(sc, res[i].pos, res[k].pos)
    /\ \A j \in E \ {res[i].pos : i \in 1..Len(res)} :
        \A i \in 1..Len(res) : before(sc, res[i].pos, j)

\* the positions same-domain ranking may return
eligibleIn(sc) ==
    {j \in DOMAIN sc : pool[j].id \notin idsOf(history) /\ sc[j] > 0}

eligible == eligibleIn(scores)

\* the positions with a positive score
scoringIn(sc) == {j \in DOMAIN sc : sc[j] > 0}

\* history item h and candidate c have related titles
related(h, c) == exceedsHalf(calculateTitleSimilarity(h.title, c.title))

-----------------------------------------------------------------------------
(* C1 *)

\* C1: for a nonempty history, a nonempty pool and limit >= 1, each
\* cross-domain entry point returns a nonempty result.
C1_CrossDomainNonEmpty ==
    (op \in CrossDomainOps /\ Len(history) > 0 /\ Len(pool) > 0 /\ limit >= 1)
        => Len(result) > 0

-----------------------------------------------------------------------------
(* C2 *)

\* C2 as stated: in recommendBooksFromShows with nonempty history, when
\* every candidate scores 0, the result is the first min(limit, |pool|)
\* candidates in pool order, each with score 0.1 and the generic reason.
C2_FallbackFirstMin ==
    (op = "recommendBooksFromShows" /\ Len(history) > 0 /\ allScoreZero)
        => result = fallbackResult(Min(limit, Len(pool)))

\* C2, amended: the same for limit >= 0.
C2_FallbackExact ==
    (op = "recommendBooksFromShows" /\ Len(history) > 0 /\ allScoreZero
        /\ limit >= 0)
        => result = fallbackResult(Min(limit, Len(pool)))

C2_Witness ==
    /\ op = "recommendBooksFromShows"
    /\ Len(history) > 0
    /\ allScoreZero
    /\ Len(pool) = 3
    /\ limit = 2
    /\ Len(result) = 2

-----------------------------------------------------------------------------
(* C3 *)

noGenresNoTags == \A h \in 1..Len(history) :
    history[h].genres = <<>> /\ history[h].tags = <<>>

\* C3 as stated, taken on a nonempty history and a limit >= 0: in
\* recommendBooksFromShows, if every history item has no genres and no
\* tags, the result is the fallback result, whatever the titles are.
C3_EmptyHistoryItemsFallback ==
    (op = "recommendBooksFromShows" /\ Len(history) > 0 /\ noGenresNoTags
        /\ limit >= 0)
        => result = fallbackResult(Min(limit, Len(pool)))

\* C3, amended: in recommendBooksFromShows with limit >= 0 and a nonempty
\* history whose items all have no genres and no tags, if no history title
\* is related to a candidate title, the result is the fallback result.
C3_FallbackWithoutTitleMatch ==
    (op = "recommendBooksFromShows" /\ Len(history) > 0 /\ noGenresNoTags
        /\ limit >= 0
        /\ \A h \in 1..Len(history) : \A j \in Positions :
               ~related(history[h], pool[j]))
        => result = fallbackResult(Min(limit, Len(pool)))

C3_Witness ==
    /\ op = "recommendBooksFromShows"
    /\ Len(history) > 0
    /\ noGenresNoTags
    /\ Len(pool) >= 2
    /\ limit >= 2
    /\ result = fallbackResult(Len(pool))

-----------------------------------------------------------------------------
(* C4 *)

\* C4: in same-domain ranking no entry of the result has the id of a
\* history item.
C4_Exclusion ==
    op \in SameDomainOps =>
        \A i \in 1..Len(result) : result[i].item.id \notin idsOf(history)

\* a candidate that overlaps the history is left out for its id alone
C4_Witness ==
    /\ op \in SameDomainOps
    /\ Len(result) > 0
    /\ limit >= Len(pool)
    /\ \E j \in Positions :
        /\ pool[j].id \in idsOf(history)
        /\ scoreOf(op, j).score > 0

-----------------------------------------------------------------------------
(* C5 *)

\* C5: same-domain ranking never returns an entry whose score is <= 0.
C5_PositiveScores ==
    op \in SameDomainOps => \A i \in 1..Len(result) : result[i].score > 0

\* a candidate that scores 0 is left out although the limit has room
C5_Witness ==
    /\ op \in SameDomainOps
    /\ Len(result) > 0
    /\ Len(result) < limit
    /\ \E j \in Positions :
        pool[j].id \notin idsOf(history) /\ scoredArray[j].score = 0

-----------------------------------------------------------------------------
(* C6 *)

\* C6 as stated: for each entry point and every limit integer the length
\* of the result is at most limit.
C6_LengthAtMostLimit == op # "idle" => Len(result) <= limit

\* C6, amended: for each entry point and every limit >= 0 the length of
\* the result is at most limit.
C6_LimitRespected == (op # "idle" /\ limit >= 0) => Len(result) <= limit

\* the fallback path cuts a longer pool to limit
C6_Witness ==
    /\ op = "recommendBooksFromShows"
    /\ allScoreZero
    /\ limit > 0
    /\ Len(pool) > limit
    /\ Len(result) = limit

-----------------------------------------------------------------------------
(* C7 *)

\* C7: every returned entry has between 1 and 3 reasons, and when scoring
\* gave the candidate no reason, its reasons are exactly the generic
\* reason of the entry point.
C7_Reasons ==
    op # "idle" =>
        \A i \in 1..Len(result) :
            /\ Len(result[i].reasons) >= 1
            /\ Len(result[i].reasons) <= 3
            /\ scoreOf(op, result[i].pos).reasons = <<>>
                   => result[i].reasons = <<genericOf(op)>>

\* an entry whose reasons were cut to 3
C7_Witness ==
    /\ op \in SameDomainOps
    /\ \E i \in 1..Len(result) :
        /\ Len(result[i].reasons) = 3
        /\ \E h \in 1..Len(history) :
            /\ related(history[h], result[i].item)
            /\ ~includes(result[i].reasons, RelatedSeries)

-----------------------------------------------------------------------------
(* C8 *)

\* C8: with an empty history both cross-domain entry points return the
\* empty list, for every pool and limit.
C8_EmptyHistory ==
    (op \in CrossDomainOps /\ Len(history) = 0) => result = <<>>

C8_Witness ==
    /\ op = "recommendBooksFromShows"
    /\ Len(history) = 0
    /\ Len(pool) > 0
    /\ limit >= 1
    /\ result = <<>>

-----------------------------------------------------------------------------
(* C9 *)

\* C9: for same-domain ranking with limit >= 0 the result is the first
\* min(limit, k) of the k eligible candidates (not excluded, score > 0) in
\* descending score order, equal scores in pool order.
C9_RankedTopK ==
    (op \in SameDomainOps /\ limit >= 0) =>
        LET sc == scores
            E == eligibleIn(sc)
        IN  /\ Len(result) = Min(limit, Cardinality(E))
            /\ rankedPrefix(sc, result, E)

\* a later candidate overtakes earlier ones and a tie is cut by the limit
C9_Witness ==
    /\ op \in SameDomainOps
    /\ limit = 2
    /\ Len(result) = 2
    /\ Cardinality(eligible) = 3
    /\ result[1].pos > result[2].pos
    /\ \E j \in eligible :
        /\ j > result[2].pos
        /\ scoredArray[j].score = result[2].score

-----------------------------------------------------------------------------
(* C10 *)

\* C10: in both cross-domain entry points, when some candidate has a
\* nonzero score, the result holds only candidates with score > 0, in
\* descending order, cut by the limit: no zero-scoring candidate fills the
\* result and no score is the nominal 0.1.
C10_NoFill ==
    op \in CrossDomainOps =>
        LET sc == scores
            S == scoringIn(sc)
        IN  (\E j \in DOMAIN sc : sc[j] # 0) =>
                /\ \A i \in 1..Len(result) :
                    result[i].score > 0 /\ result[i].score # NominalScore
                /\ rankedPrefix(sc, result, S)
                /\ limit >= Cardinality(S) => Len(result) = Cardinality(S)

\* a zero-scoring candidate stays out although the limit has room
C10_Witness ==
    /\ op = "recommendBooksFromShows"
    /\ Len(result) > 0
    /\ Len(result) < limit
    /\ Len(result) < Len(pool)

-----------------------------------------------------------------------------
(* C11 *)

\* the number of entries of ref whose lower-cased form is the lower-cased
\* form of some entry of cand
refCount(ref, cand) ==
    Cardinality({k \in DOMAIN ref :
        \E i \in DOMAIN cand : toLowerCase(ref[k]) = toLowerCase(cand[i])})

\* the weighted score of one (history item, candidate) pair
pairScore(u, c) ==
    refCount(u.genres, c.genres) * EXACT_GENRE_MATCH
    + refCount(u.tags, c.tags) * TAG_MATCH

\* the pair scores of candidate c, one for each entry of the history
pairScores(c) == [h \in 1..Len(history) |-> pairScore(history[h], c)]

\* position j of the pool is not excluded by its id
notExcluded(j) == pool[j].id \notin idsOf(history)

\* C11: in same-domain scoring the score of a candidate that is not
\* excluded is the sum, over every entry of the history, of genre overlap
\* count x 10 + tag overlap count x 3 of the pair, and nothing else (no
\* title similarity).
C11_SumOfPairScores ==
    op \in SameDomainOps =>
        \A j \in DOMAIN scoredArray :
            notExcluded(j) =>
                scoredArray[j].score = Scale * sum(pairScores(pool[j]))

\* the same history item twice, and a candidate with a related title
C11_Witness ==
    /\ op \in SameDomainOps
    /\ Len(history) = 2
    /\ history[1] = history[2]
    /\ \E j \in DOMAIN scoredArray :
        /\ notExcluded(j)
        /\ related(history[1], pool[j])
        /\ scoredArray[j].score = 2 * Scale * pairScore(history[1], pool[j])
        /\ scoredArray[j].score > 0

-----------------------------------------------------------------------------
(* C12 *)

\* the number of entries of cand whose lower-cased form is the lower-cased
\* form of some entry of ref
candCount(ref, cand) ==
    Cardinality({i \in DOMAIN cand :
        \E k \in DOMAIN ref : toLowerCase(cand[i]) = toLowerCase(ref[k])})

\* C12 as stated, seen in the score of a single-item history: the genre
\* (tag) overlap count of the pair is the number of entries of the
\* candidate's list that match some entry of the reference item's list.
C12_CandidateEntriesCounted ==
    (op \in SameDomainOps /\ Len(history) = 1) =>
        \A j \in DOMAIN scoredArray :
            notExcluded(j) =>
                scoredArray[j].score =
                    Scale * (candCount(history[1].genres, pool[j].genres)
                                 * EXACT_GENRE_MATCH
                             + candCount(history[1].tags, pool[j].tags)
                                 * TAG_MATCH)

\* C12, amended: the genre (tag) overlap count of the pair is the number
\* of entries of the reference item's list whose lower-cased form equals
\* some lower-cased entry of the candidate's list: an entry repeated in
\* the reference item's list counts each time, a repeated entry of the
\* candidate's list does not add to the count.
C12_ReferenceEntriesCounted ==
    (op \in SameDomainOps /\ Len(history) = 1) =>
        \A j \in DOMAIN scoredArray :
            notExcluded(j) =>
                scoredArray[j].score =
                    Scale * (refCount(history[1].genres, pool[j].genres)
                                 * EXACT_GENRE_MATCH
                             + refCount(history[1].tags, pool[j].tags)
                                 * TAG_MATCH)

\* a genre twice in the reference item's list and a tag twice (up to
\* case) in the candidate's list: the genre counts twice, the tag once
C12_Witness ==
    /\ op \in SameDomainOps
    /\ Len(history) = 1
    /\ \E j \in DOMAIN scoredArray :
        /\ notExcluded(j)
        /\ refCount(history[1].genres, pool[j].genres) = 2
        /\ candCount(history[1].tags, pool[j].tags) = 2
        /\ scoredArray[j].score
               = Scale * (2 * EXACT_GENRE_MATCH + TAG_MATCH)

-----------------------------------------------------------------------------
(* C13 *)

genreSet(c) == {c.genres[i] : i \in DOMAIN c.genres}
tagSet(c) == {c.tags[i] : i \in DOMAIN c.tags}

\* the genre set of a contains that of b, and the tag set too
contains(a, b) ==
    genreSet(b) \subseteq genreSet(a) /\ tagSet(b) \subseteq tagSet(a)

\* C13 as stated: for a single-item history, a candidate whose genre set
\* and tag set contain those of another candidate never scores lower
\* than it, in same-domain and in cross-domain scoring.
C13_Monotone ==
    (op # "idle" /\ Len(history) = 1) =>
        \A j, k \in DOMAIN scoredArray :
            contains(pool[j], pool[k])
                => scoredArray[j].score >= scoredArray[k].score

\* C13, amended: the same, in same-domain ranking for a containing
\* candidate that is not excluded by its id, and in scoreBookFromShows for
\* a containing candidate whose title is related to the history item's
\* title whenever the other candidate's title is.
C13_MonotoneUnlessExcludedOrTitle ==
    (op # "idle" /\ Len(history) = 1) =>
        \A j, k \in DOMAIN scoredArray :
            (/\ contains(pool[j], pool[k])
             /\ op \in SameDomainOps => notExcluded(j)
             /\ op = "recommendBooksFromShows" =>
                    (related(history[1], pool[k])
                        => related(history[1], pool[j])))
                => scoredArray[j].score >= scoredArray[k].score

\* cross-domain: a candidate with more genres and tags scores higher than
\* one with fewer, which scores too
C13_Witness ==
    /\ op = "recommendBooksFromShows"
    /\ Len(history) = 1
    /\ \E j, k \in DOMAIN scoredArray :
        /\ contains(pool[j], pool[k])
        /\ genreSet(pool[j]) # genreSet(pool[k])
        /\ scoredArray[k].score > 0
        /\ scoredArray[j].score > scoredArray[k].score

-----------------------------------------------------------------------------
(* C15 *)

\* the normalized form of a label: case-folded, surrounding whitespace
\* removed
normalizeLabel(label) == trim(toLowerCase(label))

\* the number of entries of ref whose normalized form is the normalized
\* form of some entry of cand
normCount(ref, cand) ==
    Cardinality({k \in DOMAIN ref :
        \E i \in DOMAIN cand :
            normalizeLabel(ref[k]) = normalizeLabel(cand[i])})

\* the pair scores of candidate c with every comparison made on
\* normalized forms
normPairScores(c) ==
    [h \in 1..Len(history) |->
        normCount(history[h].genres, c.genres) * EXACT_GENRE_MATCH
        + normCount(history[h].tags, c.tags) * TAG_MATCH]

\* what scoreBookFromShows adds for the mapped genres of show u
crossGenreScore(u, c) ==
    sum([ix \in 1..Len(mappedGenresOf(u)) |->
            mappedGenreWeight(mappedGenresOf(u)[ix], c)])

\* the scores of candidate c against each show, with the tags compared on
\* normalized forms
normCrossScores(c) ==
    [h \in 1..Len(history) |->
        crossGenreScore(history[h], c)
        + normCount(history[h].tags, c.tags) * TAG_MATCH
        + (IF related(history[h], c) THEN POPULARITY_BONUS * 2 ELSE 0)]

\* C15: in every scoring path two genre or tag strings that differ only
\* in case or surrounding whitespace count as equal: the scores are those
\* of comparisons made on the case-folded, trimmed forms.
C15_NormalizedComparison ==
    /\ op \in SameDomainOps \cup {"recommendShowsFromBooks"} =>
        \A j \in DOMAIN scoredArray :
            (op \in SameDomainOps => notExcluded(j)) =>
                scoredArray[j].score = Scale * sum(normPairScores(pool[j]))
    /\ op = "recommendBooksFromShows" =>
        \A j \in DOMAIN scoredArray :
            scoredArray[j].score = Scale * sum(normCrossScores(pool[j]))

-----------------------------------------------------------------------------
(* C16 *)

\* the genre labels of the history
historyGenres ==
    UNION {genreSet(history[h]) : h \in 1..Len(history)}

\* label g is a key of the static table
ownKey(g) == \E i \in 1..Len(genreMapKeys) : genreMapKeys[i] = g

\* C16: for the labels recommendBooksFromShows maps,
\* mapTVGenreToBookGenres returns a list for every label: the fixed list
\* of 1 to 4 labels of a key of the table, and ["Fiction"] for every
\* label that is not a key.
C16_MappingTotal ==
    op = "recommendBooksFromShows" =>
        \A g \in historyGenres :
            /\ mapTVGenreToBookGenres(g).kind = "array"
            /\ \A i \in 1..Len(genreMapKeys) :
                genreMapKeys[i] = g =>
                    /\ mapTVGenreToBookGenres(g).elems = genreMapValues[i]
                    /\ Len(genreMapValues[i]) \in 1..4
            /\ ~ownKey(g) => mapTVGenreToBookGenres(g).elems = <<Fiction>>

-----------------------------------------------------------------------------
(* C17 *)

\* C17: the table is looked up by the normalized label: a history genre
\* that differs from a key only in case or surrounding whitespace maps to
\* the list of that key.
C17_NormalizedLookup ==
    op = "recommendBooksFromShows" =>
        \A g \in historyGenres :
            \A i \in 1..Len(genreMapKeys) :
                normalizeLabel(g) = normalizeLabel(genreMapKeys[i]) =>
                    mapTVGenreToBookGenres(g) = ArrayValue(genreMapValues[i])

-----------------------------------------------------------------------------
(* C18 *)

\* C18: every call of an entry point completes with a result list and
\* raises no error, and a candidate without genres and tags gets nothing
\* from genre or tag overlap.
C18_NeverRaises ==
    op # "idle" =>
        /\ error = "none"
        /\ \A j \in DOMAIN scoredArray :
            (pool[j].genres = <<>> /\ pool[j].tags = <<>>) =>
                \A h \in 1..Len(history) :
                    /\ calculateOverlap(history[h].genres, pool[j].genres) = 0
                    /\ calculateOverlap(history[h].tags, pool[j].tags) = 0

-----------------------------------------------------------------------------
(* C19 *)

-----------------------------------------------------------------------------
(* C20 *)

\* no genre that the table maps a genre of show u to matches candidate c
noMappedMatch(u, c) ==
    \A ix \in 1..Len(mappedGenresOf(u)) :
        mappedGenreWeight(mappedGenresOf(u)[ix], c) = 0

\* what the tags, and in recommendBooksFromShows the title, add to the
\* score of candidate c
nonGenreScores(o, c) ==
    [h \in 1..Len(history) |->
        calculateOverlap(history[h].tags, c.tags) * TAG_MATCH
        + (IF o = "recommendBooksFromShows" /\ related(history[h], c)
           THEN POPULARITY_BONUS * 2 ELSE 0)]

\* C20: in both cross-domain entry points the genre score is computed
\* against the mapped labels, never the raw history genres: when no
\* mapped label of any history item matches the candidate, the genres
\* add nothing to its score, also when a raw history genre equals a
\* genre of the candidate.
C20_MappedGenresOnly ==
    (op \in CrossDomainOps /\ error = "none") =>
        \A j \in DOMAIN scoredArray :
            (\A h \in 1..Len(history) : noMappedMatch(history[h], pool[j]))
                => scoredArray[j].score
                       = Scale * sum(nonGenreScores(op, pool[j]))

-----------------------------------------------------------------------------
(* C21 *)

\* positions a..b of s hold a whitespace-delimited word of s
isWord(s, a, b) ==
    /\ a <= b
    /\ \A i \in a..b : ~IsSpace(s[i])
    /\ a = 1 \/ IsSpace(s[a - 1])
    /\ b = Len(s) \/ IsSpace(s[b + 1])

\* the whitespace-delimited words of s that are longer than 3
longWords(s) ==
    {SubSeq(s, ab[1], ab[2]) :
        ab \in {x \in (1..Len(s)) \X (1..Len(s)) :
                    isWord(s, x[1], x[2]) /\ x[2] - x[1] + 1 > 3}}

\* the normalized genres of candidate c
normalizedGenres(c) == {normalizeLabel(c.genres[i]) : i \in DOMAIN c.genres}

\* what one mapped label is to add for candidate c: 10 for an exact
\* match, otherwise 5 for a partial match, otherwise 0
tripleWeight(m, c) ==
    IF normalizeLabel(m) \in normalizedGenres(c) THEN 10
    ELSE IF \E w \in longWords(normalizeLabel(m)) :
                \E g \in normalizedGenres(c) : strIncludes(g, w)
         THEN 5
         ELSE 0

\* the weights of the mapped labels of one source genre
labelWeights(tvGenre, c) ==
    [m \in 1..Len(mapTVGenreToBookGenres(tvGenre).elems) |->
        tripleWeight(mapTVGenreToBookGenres(tvGenre).elems[m], c)]

\* the sum of the weights of the triples of show u
tripleSum(u, c) ==
    sum([g \in 1..Len(u.genres) |-> sum(labelWeights(u.genres[g], c))])

\* the scores of candidate c against each show, the genre part being the
\* sum over the triples
tripleScores(c) ==
    [h \in 1..Len(history) |->
        tripleSum(history[h], c)
        + calculateOverlap(history[h].tags, c.tags) * TAG_MATCH
        + (IF related(history[h], c) THEN POPULARITY_BONUS * 2 ELSE 0)]

\* C21: in scoreBookFromShows each (show, source genre, mapped label)
\* triple adds exactly one of 10 (exact match of the normalized forms),
\* else 5 (a word longer than 3 of the mapped label is a substring of a
\* candidate genre), else 0, never both 10 and 5.
C21_ExactElsePartial ==
    (op = "recommendBooksFromShows" /\ error = "none") =>
        \A j \in DOMAIN scoredArray :
            scoredArray[j].score = Scale * sum(tripleScores(pool[j]))

\* one show with a mapped label that matches exactly (and has a word in
\* a candidate genre too) and another that matches partially
C21_Witness ==
    /\ op = "recommendBooksFromShows"
    /\ Len(history) = 1
    /\ \E j \in DOMAIN scoredArray :
        \E m1, m2 \in 1..Len(mappedGenresOf(history[1])) :
            /\ tripleWeight(mappedGenresOf(history[1])[m1], pool[j]) = 10
            /\ tripleWeight(mappedGenresOf(history[1])[m2], pool[j]) = 5
            /\ scoredArray[j].score >= Scale * 15

-----------------------------------------------------------------------------
(* C22 *)

\* the number of history items whose title is related to that of c
relatedCount(c) ==
    Cardinality({h \in 1..Len(history) : related(history[h], c)})

\* what the genres and the tags add to the score of candidate c in
\* scoreBookFromShows
genreAndTagScores(c) ==
    [h \in 1..Len(history) |->
        crossGenreScore(history[h], c)
        + calculateOverlap(history[h].tags, c.tags) * TAG_MATCH]

\* C22: in scoreBookFromShows each history item whose title similarity
\* with the candidate's title exceeds 0.5 adds exactly 4 to the score,
\* whatever the genre and tag overlap, and the adaptation reason is
\* given; an item with a similarity of at most 0.5 adds nothing.
C22_TitleBonus ==
    (op = "recommendBooksFromShows" /\ error = "none") =>
        \A j \in DOMAIN scoredArray :
            /\ scoredArray[j].score
                   = Scale * (sum(genreAndTagScores(pool[j]))
                              + 4 * relatedCount(pool[j]))
            /\ relatedCount(pool[j]) > 0
                   <=> includes(scoredArray[j].reasons,
                                FromShows \o RelatedShow)

\* the same show twice, related to a candidate by the title alone
C22_Witness ==
    /\ op = "recommendBooksFromShows"
    /\ Len(history) = 2
    /\ \E j \in DOMAIN scoredArray :
        /\ relatedCount(pool[j]) = 2
        /\ scoredArray[j].score = Scale * 8
        /\ scoredArray[j].reasons = <<FromShows \o RelatedShow>>

-----------------------------------------------------------------------------
(* C23 *)

\* history item h overlaps candidate c in a genre or a tag
overlapping(h, c) ==
    \/ calculateOverlap(h.genres, c.genres) > 0
    \/ calculateOverlap(h.tags, c.tags) > 0

\* the reasons of the overlapping history items for candidate c, in
\* history order
reasonsInOrder(c) ==
    flatten([h \in 1..Len(history) |->
                IF overlapping(history[h], c)
                THEN generateReasons(history[h], c)
                ELSE <<>>])

\* the position of the first occurrence of x in arr
firstAt(arr, x) ==
    CHOOSE i \in DOMAIN arr :
        arr[i] = x /\ \A k \in 1..(i - 1) : arr[k] # x

\* the distinct entries of arr
entriesOf(arr) == {arr[i] : i \in DOMAIN arr}

\* rs lists the first entries of all, without duplicates, in the order
\* of their first occurrence, and at most 3 of them
firstDistinct(rs, all) ==
    /\ Len(rs) = Min(3, Cardinality(entriesOf(all)))
    /\ \A i \in DOMAIN rs : rs[i] \in entriesOf(all)
    /\ \A i, k \in DOMAIN rs :
           i < k => firstAt(all, rs[i]) < firstAt(all, rs[k])
    /\ \A i \in DOMAIN rs : \A x \in entriesOf(all) :
           firstAt(all, x) < firstAt(all, rs[i]) => x \in entriesOf(rs)

\* C23: the reasons scoreItem returns are the reasons of each overlapping
\* history item, concatenated in history order, with exact duplicates
\* removed keeping the first occurrence, cut to the first 3: at most 3,
\* no two equal, in the order of first occurrence.
C23_FirstThreeDistinctReasons ==
    op \in SameDomainOps =>
        \A j \in DOMAIN scoredArray :
            (notExcluded(j) /\ reasonsInOrder(pool[j]) # <<>>) =>
                firstDistinct(scoredArray[j].reasons, reasonsInOrder(pool[j]))

\* two history items produce the same reason for a candidate
C23_Witness ==
    /\ op \in SameDomainOps
    /\ \E j \in DOMAIN scoredArray :
        /\ notExcluded(j)
        /\ Len(reasonsInOrder(pool[j]))
               > Cardinality(entriesOf(reasonsInOrder(pool[j])))
        /\ Len(scoredArray[j].reasons) >= 2

-----------------------------------------------------------------------------
(* C24 *)

RECURSIVE sharedFrom(_, _, _, _)
\* the first n entries of ref, from position i on, whose lower-cased form
\* is among the lower-cased entries of cand, as they are written in ref
sharedFrom(ref, cand, i, n) ==
    IF i > Len(ref) \/ n = 0 THEN <<>>
    ELSE IF \E k \in DOMAIN cand :
                toLowerCase(cand[k]) = toLowerCase(ref[i])
         THEN <<ref[i]>> \o sharedFrom(ref, cand, i + 1, n - 1)
         ELSE sharedFrom(ref, cand, i + 1, n)

RECURSIVE listText(_)
\* the entries of names separated by a comma and a space
listText(names) ==
    IF names = <<>> THEN <<>>
    ELSE IF Len(names) = 1 THEN names[1]
    ELSE names[1] \o CommaSpace \o listText(Tail(names))

\* the reasons C24 describes for reference item h and candidate c
describedReasons(h, c) ==
    (IF calculateOverlap(h.genres, c.genres) # 0
     THEN <<SharesGenres \o listText(sharedFrom(h.genres, c.genres, 1, 3))>>
     ELSE <<>>)
    \o (IF calculateOverlap(h.tags, c.tags) # 0
        THEN <<SimilarThemes \o listText(sharedFrom(h.tags, c.tags, 1, 2))>>
        ELSE <<>>)
    \o (IF related(h, c) THEN <<RelatedSeries>> ELSE <<>>)

\* C24: generateReasons gives, in this order, "Shares genres: " with the
\* first 3 genres of the reference item found among the candidate's
\* (reference order and casing) exactly when the genre overlap is not
\* zero, "Similar themes: " with the first 2 shared tags exactly when the
\* tag overlap is not zero, and then at most one adaptation reason.
C24_ReasonsOfOnePair ==
    (op \in SameDomainOps /\ Len(history) = 1) =>
        \A j \in DOMAIN scoredArray :
            (notExcluded(j) /\ overlapping(history[1], pool[j])) =>
                scoredArray[j].reasons = describedReasons(history[1], pool[j])

\* a pair with more than 3 shared genres and more than 2 shared tags
C24_Witness ==
    /\ op \in SameDomainOps
    /\ Len(history) = 1
    /\ \E j \in DOMAIN scoredArray :
        /\ notExcluded(j)
        /\ calculateOverlap(history[1].genres, pool[j].genres) > 3
        /\ calculateOverlap(history[1].tags, pool[j].tags) > 2
        /\ Len(scoredArray[j].reasons) = 2

-----------------------------------------------------------------------------
(* C26 *)

\* text s begins with text p
startsWith(s, p) == Len(s) >= Len(p) /\ SubSeq(s, 1, Len(p)) = p

\* the generic reasons of the four entry points
GenericReasons == {GenericReading, GenericViewing, GenericShows, GenericBooks}

\* C26: the results of recommendBooks and recommendShows never contain
\* the generic fallback reason: every returned candidate has a score
\* above 0 and its first reason begins with "Shares genres: " or
\* "Similar themes: ".
C26_SameDomainReasonsSpecific ==
    op \in SameDomainOps =>
        \A i \in DOMAIN result :
            /\ result[i].score > 0
            /\ Len(result[i].reasons) > 0
            /\ \A k \in DOMAIN result[i].reasons :
                   result[i].reasons[k] \notin GenericReasons
            /\ \/ startsWith(result[i].reasons[1], SharesGenres)
               \/ startsWith(result[i].reasons[1], SimilarThemes)

\* a returned candidate that has the title reason too
C26_Witness ==
    /\ op \in SameDomainOps
    /\ \E i \in DOMAIN result :
        /\ includes(result[i].reasons, RelatedSeries)
        /\ startsWith(result[i].reasons[1], SimilarThemes)

-----------------------------------------------------------------------------
(* C27 *)

\* entry r is a fallback entry: nominal score and the generic reason only
isFallback(r) == r.score = NominalScore /\ r.reasons = <<GenericShows>>

\* entry r is a genuine match: a whole score of at least 3
isGenuine(r) == r.score >= 3 * Scale /\ r.score % Scale = 0

\* C27: a result of recommendBooksFromShows is homogeneous: all its
\* entries are fallback entries (score exactly 0.1, the generic reason
\* only) or all are genuine matches (whole score of at least 3), never a
\* mix; and a candidate that scored 0 never has a reason other than the
\* generic one.
C27_Homogeneous ==
    op = "recommendBooksFromShows" =>
        /\ \/ \A i \in DOMAIN result : isFallback(result[i])
           \/ \A i \in DOMAIN result : isGenuine(result[i])
        /\ \A j \in DOMAIN scoredArray :
               scoredArray[j].score = 0 =>
                   scoredArray[j].reasons = <<GenericShows>>

\* genuine matches are returned while another candidate scored 0
C27_Witness ==
    /\ op = "recommendBooksFromShows"
    /\ Len(result) >= 1
    /\ \A i \in DOMAIN result : isGenuine(result[i])
    /\ \E j \in DOMAIN scoredArray : scoredArray[j].score = 0
    /\ \E i \in DOMAIN result : result[i].score = 3 * Scale

-----------------------------------------------------------------------------
(* C28 *)

\* no two entries of the pool have the same id
uniqueIds ==
    \A j, k \in Positions : pool[j].id = pool[k].id => j = k

\* C28: for the four entry points every entry of the result is an item
\* of the pool, every position of the pool appears at most once, and,
\* the ids of the pool being unique, no two entries have the same id.
C28_ResultFromPoolOnce ==
    op # "idle" =>
        /\ \A i \in DOMAIN result :
               /\ result[i].pos \in Positions
               /\ result[i].item = pool[result[i].pos]
        /\ \A i, k \in DOMAIN result :
               result[i].pos = result[k].pos => i = k
        /\ uniqueIds =>
               \A i, k \in DOMAIN result :
                   result[i].item.id = result[k].item.id => i = k

\* a result of several entries, not in the order of the pool
C28_Witness ==
    /\ op # "idle"
    /\ uniqueIds
    /\ Len(result) >= 2
    /\ result[1].pos > result[2].pos

-----------------------------------------------------------------------------
(* C25 *)

\* the number of whitespace-separated words of s
wordCount(s) ==
    Cardinality({x \in (1..Len(s)) \X (1..Len(s)) : isWord(s, x[1], x[2])})

\* the number of words longer than 3 that titles s and t have in common
commonCount(s, t) ==
    Cardinality(longWords(toLowerCase(s)) \cap longWords(toLowerCase(t)))

\* c / max(n1, n2) > 0.5
ratioRelated(s, t) ==
    LET n1 == wordCount(toLowerCase(s))
        n2 == wordCount(toLowerCase(t))
    IN  2 * commonCount(s, t) > (IF n1 >= n2 THEN n1 ELSE n2)

\* C25: two titles are related exactly when c / max(n1, n2) > 0.5, n1
\* and n2 being the numbers of whitespace-separated words of the
\* lower-cased titles and c the number of words longer than 3 common to
\* both; the outcome is the same whichever title is the reference.
C25_RelatedByRatio ==
    /\ similarity # NotCalled =>
           (exceedsHalf(similarity) <=> ratioRelated(firstTitle, secondTitle))
    /\ swapped # NotCalled =>
           (exceedsHalf(swapped) <=> ratioRelated(firstTitle, secondTitle))
    /\ (similarity # NotCalled /\ swapped # NotCalled) =>
           (exceedsHalf(similarity) <=> exceedsHalf(swapped))

-----------------------------------------------------------------------------
(* C29 *)

\* the number of calls of fn made so far
callsMade == Len(fnLog) + (IF retryPc = "awaitFn" THEN 1 ELSE 0)

\* a retryable error: a NetworkError, or an APIError with retryable = true
retryableError(e) ==
    e.kind = "NetworkError" \/ (e.kind = "APIError" /\ e.retryable)

\* retryWithBackoff has returned or thrown
retrySettled == retryPc \in {"returned", "thrown"}

\* at most maxRetries + 1 calls; the first success is returned at once;
\* a further call only after a retryable error and the wait of
\* initialDelay * 2^attempt; any other error, and the error of call
\* maxRetries + 1, is thrown as it is
retryDiscipline ==
    /\ callsMade <= maxRetries + 1
    /\ \A k \in DOMAIN fnLog :
           fnLog[k].kind = "value" =>
               /\ retryPc = "returned"
               /\ settled = fnLog[k]
               /\ callsMade = k
    /\ \A k \in 2..callsMade :
           /\ retryableError(fnLog[k - 1])
           /\ Len(waited) >= k - 1
           /\ waited[k - 1] = initialDelay * 2^(k - 2)
    /\ \A k \in DOMAIN fnLog :
           (/\ fnLog[k].kind # "value"
            /\ ~retryableError(fnLog[k]) \/ k = maxRetries + 1) =>
               /\ retryPc = "thrown"
               /\ settled = fnLog[k]
               /\ callsMade = k
    /\ retrySettled => settled = fnLog[Len(fnLog)]

-----------------------------------------------------------------------------
(* C30 *)

\* no two entries of the lists of u have the same item id
noDuplicateIds(u) ==
    /\ \A i, k \in DOMAIN u.readBooks :
           u.readBooks[i].book.id = u.readBooks[k].book.id => i = k
    /\ \A i, k \in DOMAIN u.watchedShows :
           u.watchedShows[i].show.id = u.watchedShows[k].show.id => i = k

\* seq without entry i
without(seq, i) == SubSeq(seq, 1, i - 1) \o SubSeq(seq, i + 1, Len(seq))

\* later is earlier without its entries of book id, the rest as it was
booksRemoved(earlier, later, id) ==
    /\ \A i \in DOMAIN later : later[i].book.id # id
    /\ \/ later = earlier
       \/ \E i \in DOMAIN earlier :
              earlier[i].book.id = id /\ later = without(earlier, i)

\* later is earlier without its entries of show id, the rest as it was
showsRemoved(earlier, later, id) ==
    /\ \A i \in DOMAIN later : later[i].show.id # id
    /\ \/ later = earlier
       \/ \E i \in DOMAIN earlier :
              earlier[i].show.id = id /\ later = without(earlier, i)

\* what a step of the operations does to the lists
userStep ==
    /\ noDuplicateIds(userData')
    /\ (lastCall'.name = "addBook"
            /\ hasBook(userData.readBooks, lastCall'.id)) =>
           userData' = userData
    /\ (lastCall'.name = "addShow"
            /\ hasShow(userData.watchedShows, lastCall'.id)) =>
           userData' = userData
    /\ lastCall'.name = "removeBook" =>
           /\ booksRemoved(userData.readBooks, userData'.readBooks,
                           lastCall'.id)
           /\ userData'.watchedShows = userData.watchedShows
    /\ lastCall'.name = "removeShow" =>
           /\ showsRemoved(userData.watchedShows, userData'.watchedShows,
                           lastCall'.id)
           /\ userData'.readBooks = userData.readBooks

\* C30: from the empty user list, after any sequence of addBook,
\* removeBook, setBookRating, setBookStatus and the same operations on
\* shows, the list never has two entries with the same item id: addBook
\* of an id in the list leaves the whole state unchanged (status, rating
\* and addedAt are kept), removeBook removes every entry of that id and
\* changes nothing else.
C30_NoDuplicateEntries == [][userStep]_vars

\* addBook called for a book that is in the list, rated, with another
\* status and an earlier addedAt, beside another book
C30_Witness ==
    /\ lastCall.name = "addBook"
    /\ Len(userData.readBooks) = 2
    /\ \E i \in DOMAIN userData.readBooks :
        /\ userData.readBooks[i].book.id = lastCall.id
        /\ userData.readBooks[i].rating = 5
        /\ userData.readBooks[i].status = "read"
        /\ userData.readBooks[i].addedAt < now

====
